---------------------------- MODULE Spec2Model ----------------------------
(***************************************************************************)
(* The Fuzz plugin of src/src/lib.rs: a waveshaper (drive 20.0, one-sided  *)
(* clip at 0.8) followed by a smoothed gain, with its bus negotiation,     *)
(* initialize, reset and process callbacks.                                *)
(*                                                                         *)
(* Numbers.  Samples and the fuzz amount are exact rationals <<n, d>> in   *)
(* lowest terms (d > 0); they stand for the f32 values of the code.  The   *)
(* gain is a linear multiplier db_to_gain(x) = 10^(x/20); the model holds  *)
(* it by its decibel value x, a whole number, so the logarithmic smoothing *)
(* of the gain is an addition of decibels.  A sample after the gain stage  *)
(* is m * 10^(r/20) with m rational and r in 0..19, held as [m, r]; this   *)
(* form is unique, so equality of records is equality of values.           *)
(*                                                                         *)
(* The value smoother (FloatParam::smoothed) belongs to the nih_plug       *)
(* library, which is not part of the repository's sources; its state and   *)
(* its set_target / next are written from section 4.2 of spec.md.          *)
(***************************************************************************)
EXTENDS Integers, Sequences, FiniteSets, TLC

VARIABLES params, active, ret

vars == <<params, active, ret>>

---------------------------------------------------------------------------
(* Bounds of the model *)

\* Longest block (sample frames per process call) the host delivers.
MaxFrames == 2

\* Largest channel count the host proposes in a bus negotiation.
MaxBusChannels == 3

\* BufferConfig::sample_rate in Hz; 40 Hz makes the 50 ms window 2 samples long.
SampleRate == 40

\* Plugin::DEFAULT_INPUT_CHANNELS / DEFAULT_OUTPUT_CHANNELS: the widest
\* buffer the host delivers is the plugin's default (stereo) layout.
DEFAULT_OUTPUT_CHANNELS == 2

---------------------------------------------------------------------------
(* Exact rational arithmetic standing for f32 *)

Abs(x) == IF x < 0 THEN -x ELSE x

Max(a, b) == IF a >= b THEN a ELSE b

Min(a, b) == IF a <= b THEN a ELSE b

RECURSIVE GCD(_, _)
GCD(a, b) == IF b = 0 THEN a ELSE GCD(b, a % b)

\* n/d in lowest terms with a positive denominator (d # 0).
Rat(n, d) ==
    LET g == GCD(Abs(n), Abs(d))
        s == IF d < 0 THEN -1 ELSE 1
    IN  <<(s * n) \div g, (s * d) \div g>>

RAdd(a, b) == Rat(a[1] * b[2] + b[1] * a[2], a[2] * b[2])

RMul(a, b) == Rat(a[1] * b[1], a[2] * b[2])

RLess(a, b) == a[1] * b[2] < b[1] * a[2]

RLeq(a, b) == a[1] * b[2] <= b[1] * a[2]

RZero == <<0, 1>>

ROne == <<1, 1>>

RECURSIVE Pow10(_)
Pow10(k) == IF k = 0 THEN ROne
            ELSE IF k > 0 THEN RMul(<<10, 1>>, Pow10(k - 1))
            ELSE RMul(<<1, 10>>, Pow10(k + 1))

\* x * db_to_gain(db) = x * 10^(db/20), in the unique form [m, r].
TimesGain(x, db) ==
    IF x = RZero THEN [m |-> RZero, r |-> 0]
    ELSE [m |-> RMul(x, Pow10(db \div 20)), r |-> db % 20]

\* A value to which no gain has been applied, in the same form.
Plain(x) == TimesGain(x, 0)

---------------------------------------------------------------------------
(* Program constants *)

\* `*sample * fuzz * 20.0`
DRIVE == <<20, 1>>

\* `if *sample > 0.8 { *sample = 0.8; }`
CEILING == <<4, 5>>

\* FloatRange::Skewed { min: db_to_gain(-30.0), max: db_to_gain(30.0) }, in dB
GAIN_MIN_DB == -30

GAIN_MAX_DB == 30

\* util::db_to_gain(0.0), the default of the gain parameter, in dB
GAIN_DEFAULT_DB == 0

\* SmoothingStyle::Logarithmic(50.0): the window in milliseconds
GAIN_SMOOTHING_MS == 50

\* FloatRange::Linear { min: 0.0, max: 1.0 } and the default 0.0 of fuzz
FUZZ_MIN == <<0, 1>>

FUZZ_MAX == <<1, 1>>

FUZZ_DEFAULT == <<0, 1>>

---------------------------------------------------------------------------
(* Inputs the host draws from *)

\* Input samples: full-scale negative, a quiet one, a half-scale one, and a
\* full-scale positive one (above the ceiling).
Samples == {<<-1, 1>>, <<1, 50>>, <<1, 2>>, <<1, 1>>}

\* The sample frames of a block with c channels: every sample when mono;
\* when stereo, pairs with equal and with different left and right samples.
Frames(c) ==
    IF c = 1 THEN { <<x>> : x \in Samples }
    ELSE { <<<<-1, 1>>, <<1, 1>>>>, <<<<1, 1>>, <<1, 1>>>>,
           <<<<1, 50>>, <<-1, 1>>>>, <<<<1, 50>>, <<1, 50>>>> }

\* Gain values (dB) the host automates to.
GainRequests == {-2, 0, 2}

\* Fuzz values the host automates to; 2 lies outside the range.
FuzzRequests == {<<0, 1>>, <<1, 1>>, <<2, 1>>}

\* The blocks the host delivers: 1..MaxFrames frames, mono or stereo.
Buffers ==
    UNION { [1..n -> Frames(c)] :
            n \in 1..MaxFrames, c \in 1..DEFAULT_OUTPUT_CHANNELS }

BusConfigs ==
    [num_input_channels : 0..MaxBusChannels, num_output_channels : 0..MaxBusChannels]

---------------------------------------------------------------------------
(* The value smoother of a FloatParam (nih_plug; from spec.md section 4.2) *)

\* A smoother that has converged on v.
Converged(v) == [current |-> v, target |-> v, remaining |-> 0, step |-> 0]

\* a / b rounded toward zero (b > 0): the whole-decibel step never carries
\* the value past the target.
TruncDiv(a, b) == IF a >= 0 THEN a \div b ELSE -((-a) \div b)

\* ceil(a / b) for b > 0
CeilDiv(a, b) == (a + b - 1) \div b

\* duration_ms * sample_rate / 1000, at least one step
num_steps(duration_ms) == Max(1, CeilDiv(duration_ms * SampleRate, 1000))

\* Logarithmic(50.0) smoother of the gain: the target is clamped to the
\* range, the window restarts from the current value, and the per-step
\* factor is a per-step number of decibels.
gain_set_target(s, new_target) ==
    LET t == Max(GAIN_MIN_DB, Min(GAIN_MAX_DB, new_target))
        n == num_steps(GAIN_SMOOTHING_MS)
    IN  [current |-> s.current, target |-> t, remaining |-> n,
         step |-> TruncDiv(t - s.current, n)]

\* The fuzz parameter has no smoother configured (style None): the clamped
\* value is taken over at once.
fuzz_set_target(s, new_target) ==
    LET t == IF RLess(new_target, FUZZ_MIN) THEN FUZZ_MIN
             ELSE IF RLess(FUZZ_MAX, new_target) THEN FUZZ_MAX
             ELSE new_target
    IN  Converged(t)

\* next(): the smoother after the call; the value returned is its current.
\* A converged smoother is left as it is; the last step snaps to the target.
next(s) ==
    IF s.remaining = 0 THEN s
    ELSE IF s.remaining = 1
         THEN [s EXCEPT !.current = s.target, !.remaining = 0]
         ELSE [s EXCEPT !.current = s.current + s.step,
                        !.remaining = s.remaining - 1]

\* The smoother after n calls of next().
RECURSIVE NextN(_, _)
NextN(s, n) == IF n = 0 THEN s ELSE NextN(next(s), n - 1)

---------------------------------------------------------------------------
(* Fuzz::process, per sample *)

\* *sample = *sample + *sample * fuzz * 20.0;
shape(sample, fuzz) == RAdd(sample, RMul(RMul(sample, fuzz), DRIVE))

\* Variant of clip: a two-sided clamp to [-0.8, 0.8].
clip_symmetric(x) ==
    IF RLess(CEILING, x) THEN CEILING
    ELSE IF RLess(x, <<-4, 5>>) THEN <<-4, 5>>
    ELSE x

\* Variant of clip: the magnitude is tested (`sample.abs() > 0.8`).
clip_abs(x) == IF RLess(CEILING, <<Abs(x[1]), x[2]>>) THEN CEILING ELSE x

\* Variant of clip: the ceiling is 1.0.
clip_at_unity(x) == IF RLess(ROne, x) THEN ROne ELSE x

\* if *sample > 0.8 { *sample = 0.8; }
clip(x) == IF RLess(CEILING, x) THEN CEILING ELSE x

\* *sample *= gain;
apply_gain(x, gain) == TimesGain(x, gain)

\* Variant of frame_step: next() is called inside the channel loop, once
\* for every channel of the frame.
frame_step_per_channel(p, frame) ==
    LET g(c) == NextN(p.gain, c)
        f(c) == NextN(p.fuzz, c)
    IN  [params  |-> [gain |-> g(Len(frame)), fuzz |-> f(Len(frame))],
         used    |-> [gain |-> g(1).current, fuzz |-> f(1).current],
         pregain |-> [c \in DOMAIN frame |->
                        clip(shape(frame[c], f(c).current))],
         samples |-> [c \in DOMAIN frame |->
                        apply_gain(clip(shape(frame[c], f(c).current)),
                                   g(c).current)]]

\* The body of the outer loop: one next() on each smoother, then every
\* channel of the frame shaped, clipped and scaled with that one pair.
frame_step(p, frame) ==
    LET g == next(p.gain)
        f == next(p.fuzz)
    IN  [params  |-> [gain |-> g, fuzz |-> f],
         used    |-> [gain |-> g.current, fuzz |-> f.current],
         pregain |-> [c \in DOMAIN frame |-> clip(shape(frame[c], f.current))],
         samples |-> [c \in DOMAIN frame |->
                        apply_gain(clip(shape(frame[c], f.current)), g.current)]]

\* for channel_samples in buffer.iter_samples() { ... }, from frame i on.
RECURSIVE process_from(_, _, _)
process_from(p, buffer, i) ==
    IF i > Len(buffer)
    THEN [params |-> p, used |-> <<>>, pregain |-> <<>>, buffer |-> <<>>]
    ELSE LET one  == frame_step(p, buffer[i])
             rest == process_from(one.params, buffer, i + 1)
         IN  [params  |-> rest.params,
              used    |-> <<one.used>> \o rest.used,
              pregain |-> <<one.pregain>> \o rest.pregain,
              buffer  |-> <<one.samples>> \o rest.buffer]

\* Fuzz::process on a whole block; returns ProcessStatus::Normal.
process(p, buffer) == process_from(p, buffer, 1)

---------------------------------------------------------------------------
(* The other callbacks *)

\* Variant of accepts_bus_config: the `> 0` test is left out.
accepts_any_symmetric(config) ==
    config.num_input_channels = config.num_output_channels

\* config.num_input_channels == config.num_output_channels
\*     && config.num_input_channels > 0
accepts_bus_config(config) ==
    config.num_input_channels = config.num_output_channels
        /\ config.num_input_channels > 0

\* initialize() does nothing and returns true.
initialize(p) == [params |-> p, result |-> TRUE]

\* Variant of reset: every smoother is put on its target.
reset_to_target(p) ==
    [gain |-> Converged(p.gain.target), fuzz |-> Converged(p.fuzz.target)]

\* reset() has an empty body.
reset(p) == p

\* FuzzParams::default(): both smoothers rest on the parameter defaults.
FuzzParamsDefault ==
    [gain |-> Converged(GAIN_DEFAULT_DB), fuzz |-> Converged(FUZZ_DEFAULT)]

---------------------------------------------------------------------------
(* The state machine.  params is Fuzz::params.  active says whether the    *)
(* host has activated the plugin: it negotiates the bus layout while the   *)
(* plugin is inactive and processes audio while it is active.  ret is what *)
(* the host saw of the latest call: its name, its arguments, what it       *)
(* returned, and the parameters as they were when it was made.             *)

Init ==
    /\ params = FuzzParamsDefault
    /\ active = FALSE
    /\ ret = [op |-> "default"]

AcceptsBusConfig ==
    /\ ~active
    /\ \E config \in BusConfigs :
        ret' = [op |-> "accepts_bus_config", config |-> config,
                result |-> accepts_bus_config(config), pre |-> params]
    /\ UNCHANGED <<params, active>>

\* initialize(); a result of false would abort the activation.
Initialize ==
    /\ ~active
    /\ LET r == initialize(params)
       IN  /\ params' = r.params
           /\ active' = r.result
           /\ ret' = [op |-> "initialize", result |-> r.result, pre |-> params]

Reset ==
    /\ active
    /\ params' = reset(params)
    /\ ret' = [op |-> "reset", pre |-> params]
    /\ UNCHANGED active

\* The host applies an automation event to the gain between two blocks.
SetGain ==
    /\ active
    /\ \E v \in GainRequests :
        params' = [params EXCEPT !.gain = gain_set_target(@, v)]
    /\ ret' = [op |-> "set_target", param |-> "gain"]
    /\ UNCHANGED active

\* The host applies an automation event to the fuzz between two blocks.
SetFuzz ==
    /\ active
    /\ \E v \in FuzzRequests :
        params' = [params EXCEPT !.fuzz = fuzz_set_target(@, v)]
    /\ ret' = [op |-> "set_target", param |-> "fuzz"]
    /\ UNCHANGED active

\* One process call on a block the host delivers; the block is transformed
\* in place.  The host delivers a block only after taking the previous one
\* back (Return).
Process ==
    /\ active
    /\ ret.op # "process"
    /\ \E buffer \in Buffers :
        LET r == process(params, buffer)
        IN  /\ params' = r.params
            /\ ret' = [op |-> "process", after_reset |-> (ret.op = "reset"),
                       pre |-> params,
                       input |-> buffer, used |-> r.used,
                       pregain |-> r.pregain, buffer |-> r.buffer,
                       result |-> "Normal"]
    /\ UNCHANGED active

\* The host takes the processed block back.
Return ==
    /\ ret.op = "process"
    /\ ret' = [op |-> "returned"]
    /\ UNCHANGED <<params, active>>

\* The host deactivates the plugin, to renegotiate the layout.
Deactivate ==
    /\ active
    /\ ret.op # "process"
    /\ active' = FALSE
    /\ ret' = [op |-> "deactivate"]
    /\ UNCHANGED params

Next ==
    \/ AcceptsBusConfig
    \/ Initialize
    \/ Reset
    \/ SetGain
    \/ SetFuzz
    \/ Process
    \/ Return
    \/ Deactivate

Spec == Init /\ [][Next]_vars

---------------------------------------------------------------------------
(* What the claims speak of *)

IsProcess == ret.op = "process"

\* The smoother rests on v: nothing left to interpolate.
RestsOn(s, v) == s.remaining = 0 /\ s.current = v /\ s.target = v

MidInterpolation(s) == s.remaining > 0 /\ s.current # s.target

\* sample + sample * fuzz * 20.0, written out.
Shaped(sample, fuzz) ==
    RAdd(sample, RMul(RMul(sample, fuzz), <<20, 1>>))

RAbs(x) == <<Abs(x[1]), x[2]>>

Config(i, o) == [num_input_channels |-> i, num_output_channels |-> o]

---------------------------------------------------------------------------
(* C1 *)

\* C1: accepts_bus_config(config) returns true exactly when the input and
\* output channel counts are equal and positive: (1,1) and (2,2) are
\* accepted, (2,1) and (0,0) are rejected; the call changes neither the
\* parameters nor the activation state of the plugin.
C1_AcceptsBusConfig ==
    ret.op = "accepts_bus_config" =>
        /\ ret.result = TRUE <=>
              (/\ ret.config.num_input_channels = ret.config.num_output_channels
               /\ ret.config.num_input_channels > 0)
        /\ ret.config \in {Config(1, 1), Config(2, 2)} => ret.result = TRUE
        /\ ret.config \in {Config(2, 1), Config(0, 0)} => ret.result = FALSE
        /\ params = ret.pre
        /\ active = FALSE

\* A symmetric stereo layout accepted while the gain is mid-interpolation.
C1_Witness ==
    /\ ret.op = "accepts_bus_config"
    /\ ret.config = Config(2, 2)
    /\ ret.result = TRUE
    /\ MidInterpolation(params.gain)

---------------------------------------------------------------------------
(* C2 *)

\* The case of C2: a block processed with the fuzz resting on 0 and the
\* gain resting on 0 dB (the multiplier 1.0).
C2_Case ==
    /\ IsProcess
    /\ RestsOn(ret.pre.fuzz, RZero)
    /\ RestsOn(ret.pre.gain, 0)

\* C2 as stated: with fuzz = 0, gain = 0 dB and both smoothers converged,
\* every output sample equals the input sample.
C2_IdentityOnEverySample ==
    C2_Case =>
        \A f \in DOMAIN ret.input : \A c \in DOMAIN ret.input[f] :
            ret.buffer[f][c] = Plain(ret.input[f][c])

\* C2 as amended: with fuzz = 0, gain = 0 dB and both smoothers converged,
\* every input sample not above 0.8 comes out unchanged, and every input
\* sample above 0.8 comes out as 0.8.
C2_IdentityUpToCeiling ==
    C2_Case =>
        \A f \in DOMAIN ret.input : \A c \in DOMAIN ret.input[f] :
            LET x == ret.input[f][c]
            IN  /\ RLeq(x, <<4, 5>>) => ret.buffer[f][c] = Plain(x)
                /\ RLess(<<4, 5>>, x) => ret.buffer[f][c] = Plain(<<4, 5>>)

\* A stereo block in the case of C2: -1 comes out as -1, 1 as 0.8.
C2_Witness ==
    /\ C2_Case
    /\ Len(ret.input) = 2
    /\ ret.input[2] = << <<-1, 1>>, <<1, 1>> >>
    /\ ret.buffer[2] = << Plain(<<-1, 1>>), Plain(<<4, 5>>) >>

---------------------------------------------------------------------------
(* C3 *)

\* C3 as stated: with fuzz = 1, a sample whose shaped value exceeds 0.8 in
\* magnitude is clamped to 0.8 before the gain, so the output is 0.8 * gain.
C3_ClampedInMagnitude ==
    IsProcess =>
        \A f \in DOMAIN ret.input : \A c \in DOMAIN ret.input[f] :
            (/\ ret.used[f].fuzz = ROne
             /\ RLess(<<4, 5>>, RAbs(Shaped(ret.input[f][c], ROne))))
            => /\ ret.pregain[f][c] = <<4, 5>>
               /\ ret.buffer[f][c] = TimesGain(<<4, 5>>, ret.used[f].gain)

\* C3 as amended: with fuzz = 1, a sample whose shaped value is greater
\* than 0.8 is clamped to exactly 0.8 before the gain, so the output is
\* 0.8 * gain (input 1.0 gives 21.0, clamped to 0.8).
C3_ClampedAboveCeiling ==
    IsProcess =>
        \A f \in DOMAIN ret.input : \A c \in DOMAIN ret.input[f] :
            (/\ ret.used[f].fuzz = ROne
             /\ RLess(<<4, 5>>, Shaped(ret.input[f][c], ROne)))
            => /\ ret.pregain[f][c] = <<4, 5>>
               /\ ret.buffer[f][c] = TimesGain(<<4, 5>>, ret.used[f].gain)

\* Input 1.0 at fuzz = 1 (shaped 21.0) under a gain other than 0 dB.
C3_Witness ==
    /\ IsProcess
    /\ ret.used[1].fuzz = ROne
    /\ ret.used[1].gain = 2
    /\ ret.input[1][1] = ROne
    /\ Shaped(ROne, ROne) = <<21, 1>>
    /\ ret.buffer[1][1] = TimesGain(<<4, 5>>, 2)

---------------------------------------------------------------------------
(* C4 *)

\* C4: a block of N frames advances each smoother by exactly N calls of
\* next(), whatever the channel count; frame f is computed with the values
\* of the f-th call, and that one pair is applied to every channel of it.
C4_OneNextPerFrame ==
    IsProcess =>
        LET N == Len(ret.input)
        IN  /\ Len(ret.used) = N
            /\ Len(ret.buffer) = N
            /\ params.gain = NextN(ret.pre.gain, N)
            /\ params.fuzz = NextN(ret.pre.fuzz, N)
            /\ params.gain.remaining = Max(0, ret.pre.gain.remaining - N)
            /\ \A f \in 1..N :
                /\ ret.used[f].gain = NextN(ret.pre.gain, f).current
                /\ ret.used[f].fuzz = NextN(ret.pre.fuzz, f).current
                /\ DOMAIN ret.buffer[f] = DOMAIN ret.input[f]
                /\ \A c \in DOMAIN ret.input[f] :
                    ret.buffer[f][c] =
                        TimesGain(
                            LET x == Shaped(ret.input[f][c], ret.used[f].fuzz)
                            IN  IF RLess(<<4, 5>>, x) THEN <<4, 5>> ELSE x,
                            ret.used[f].gain)

\* A stereo block of two frames begun with two steps left on the gain: the
\* two frames use different gains, and the gain has arrived afterwards.
C4_Witness ==
    /\ IsProcess
    /\ Len(ret.input) = 2
    /\ Len(ret.input[1]) = 2
    /\ ret.pre.gain.remaining = 2
    /\ ret.used[1].gain # ret.used[2].gain
    /\ params.gain.remaining = 0

---------------------------------------------------------------------------
(* C8 *)

\* C8 as stated: reset() leaves every smoother on its target with no steps
\* remaining, so the first frame processed after a reset uses the targets.
C8_ResetSnapsToTarget ==
    /\ ret.op = "reset" =>
           /\ RestsOn(params.gain, params.gain.target)
           /\ RestsOn(params.fuzz, params.fuzz.target)
    /\ (IsProcess /\ ret.after_reset) =>
           /\ ret.used[1].gain = ret.pre.gain.target
           /\ ret.used[1].fuzz = ret.pre.fuzz.target

\* C8 as amended: reset() leaves every smoother as it was (current value,
\* target and remaining steps), so the first frame processed after a reset
\* uses the value of the next interpolation step.
C8_ResetKeepsSmoothers ==
    /\ ret.op = "reset" => params = ret.pre
    /\ (IsProcess /\ ret.after_reset) =>
           /\ ret.used[1].gain = next(ret.pre.gain).current
           /\ ret.used[1].fuzz = next(ret.pre.fuzz).current

\* A block processed right after a reset made mid-interpolation: its first
\* frame uses a gain that is not the target.
C8_Witness ==
    /\ IsProcess
    /\ ret.after_reset
    /\ ret.pre.gain.remaining = 2
    /\ ret.used[1].gain # ret.pre.gain.target

---------------------------------------------------------------------------
(* C10 *)

\* C10: the clip is one-sided.  A shaped value is replaced by 0.8 only when
\* it is greater than 0.8 and is kept otherwise, however far below -0.8 it
\* lies; the value before the gain is never above 0.8, and the output is
\* that value times the gain.
C10_ClipIsOneSided ==
    IsProcess =>
        \A f \in DOMAIN ret.input : \A c \in DOMAIN ret.input[f] :
            LET x == Shaped(ret.input[f][c], ret.used[f].fuzz)
                y == ret.pregain[f][c]
            IN  /\ RLess(<<4, 5>>, x) => y = <<4, 5>>
                /\ RLeq(x, <<4, 5>>) => y = x
                /\ RLeq(y, <<4, 5>>)
                /\ ret.buffer[f][c] = TimesGain(y, ret.used[f].gain)

\* Input -1.0 at fuzz = 1: the value before the gain is -21.0, far below
\* -0.8, and the output is -21.0 times the gain.
C10_Witness ==
    /\ IsProcess
    /\ ret.used[1].fuzz = ROne
    /\ ret.used[1].gain = -2
    /\ ret.input[1][1] = <<-1, 1>>
    /\ ret.pregain[1][1] = <<-21, 1>>
    /\ ret.buffer[1][1] = TimesGain(<<-21, 1>>, -2)

===========================================================================
